---- MODULE Spec2Model ----
(***************************************************************************)
(* serial_monitor.py: a script that opens a serial port, polls it for 20   *)
(* seconds, prints every non-empty received line with a timestamp, and     *)
(* closes the port.                                                        *)
(*                                                                         *)
(* The program counter pc names the source line about to be executed.      *)
(* Time is counted in ticks of 10 ms (the idle sleep of line 35).          *)
(* A statement of the try body (lines 12-38) either completes, raises an   *)
(* exception of the collaborating serial layer, or is pre-empted by the    *)
(* user's interrupt; the per-line block of lines 26-33 is one step, and an *)
(* except clause runs to completion once entered.                          *)
(***************************************************************************)
EXTENDS Integers, Sequences, FiniteSets, TLC

VARIABLES pc, ser, output, now, start_time, line, raw, reads, idle,
          closes, raised

vars == <<pc, ser, output, now, start_time, line, raw, reads, idle,
          closes, raised>>

----------------------------------------------------------------------------
(* Program constants, in ticks of 10 ms.                                   *)

\* line 24: the loop runs while fewer than 20 seconds have elapsed
DURATION == 2000
\* line 12: timeout=1, the read timeout of the connection
TIMEOUT == 100
\* line 35: time.sleep(0.01)
SLEEP == 1
\* line 27: errors='replace' substitutes U+FFFD for an invalid byte
REPLACEMENT == 65533

(* Bounds of the model.                                                    *)

\* readline() calls made in one run
MaxReads == 2
\* bytes returned by one readline() call
MaxLineLen == 2
\* idle sleeps taken in one run of the coarse-clock specification
MaxIdle == 1

\* the clock never runs past this value (no run comes near it)
ClockCap == 4 * DURATION
\* the wall-clock reading at program start
StartClock == 7 * TIMEOUT
\* a stretch of time passing while the program is blocked or descheduled
ElapseStep == DURATION

----------------------------------------------------------------------------
(* Bytes and text.                                                         *)

LF == 10
CR == 13
\* 'h', '\r', '\n' and 0xFF, a byte that is valid nowhere in UTF-8
Bytes == {104, CR, LF, 255}

\* what readline() can return when bytes are waiting: at least one byte, at
\* most one newline and that one last (a line cut by the timeout has none)
LineSet ==
  {s \in UNION {[1..n -> Bytes] : n \in 1..MaxLineLen} :
     \A i \in 1..(Len(s) - 1) : s[i] # LF}

\* decode() with the default error handling
ErrorsModeStrict == "strict"

\* the error-handling argument of decode() on line 27
ErrorsMode == "replace"

IsInvalidByte(b) == b >= 128

\* bytes.decode('utf-8', errors=...) raises only in strict mode
DecodeRaises(bs) ==
  ErrorsMode = "strict" /\ \E i \in 1..Len(bs) : IsInvalidByte(bs[i])

\* bytes.decode('utf-8', errors='replace'): ASCII bytes map to their code
\* point, an invalid byte to U+FFFD
Decode(bs) ==
  [i \in 1..Len(bs) |-> IF IsInvalidByte(bs[i]) THEN REPLACEMENT ELSE bs[i]]

\* str.isspace() for one character
IsSpace(c) == c \in {9, 10, 11, 12, 13, 28, 29, 30, 31, 32, 133, 160}

\* the line is printed as decoded, untrimmed
RStripNone(s) == s

RECURSIVE RStrip(_)
\* str.rstrip(): drop trailing whitespace
RStrip(s) ==
  IF s = <<>> THEN s
  ELSE IF IsSpace(s[Len(s)]) THEN RStrip(SubSeq(s, 1, Len(s) - 1))
  ELSE s

----------------------------------------------------------------------------
(* Printed messages.                                                       *)

Msg(k) == [kind |-> k, text |-> <<>>]
\* lines 14-17
MsgBanner == Msg("banner")
\* line 30: "[HH:MM:SS] <line>"
MsgRecord(t) == [kind |-> "record", text |-> t]
\* line 33
MsgLineError == Msg("Error reading line")
\* line 38
MsgComplete == Msg("Monitoring complete")
\* line 41
MsgOpenError == Msg("Error opening serial port")
\* line 43
MsgStopped == Msg("Monitoring stopped by user")
\* line 47
MsgUnexpected == Msg("Unexpected error")

----------------------------------------------------------------------------
(* Exceptions.                                                             *)

\* subclasses of Exception that the serial layer and decode can raise
ExceptionKinds == {"SerialException", "OSError", "UnicodeDecodeError"}
\* what a call on the open connection can raise
CallErrors == {"SerialException", "OSError"}

\* statements of the try body, lines 12-38
TryBody == {"L12", "L14", "L20", "L23", "L24", "L25", "L27", "L35", "L37", "L38"}
\* statements of the while loop, lines 24-35
LoopBody == {"L24", "L25", "L27", "L35"}

Raise(exc) == raised' = Append(raised, [exc |-> exc, at |-> pc])

\* the outer try without its final 'except Exception' clause
OuterExceptNoCatchAll(exc) ==
  IF exc = "SerialException" THEN
       /\ output' = Append(output, MsgOpenError)
       /\ pc' = "done"
       /\ UNCHANGED <<ser, closes>>
  ELSE IF exc = "KeyboardInterrupt" THEN
       /\ output' = Append(output, MsgStopped)
       /\ IF ser # "unbound" /\ ser = "open"
            THEN ser' = "closed" /\ closes' = closes + 1
            ELSE UNCHANGED <<ser, closes>>
       /\ pc' = "done"
  ELSE /\ pc' = "crashed"
       /\ UNCHANGED <<ser, closes, output>>

\* the interrupt clause closing whenever 'ser' is bound, open or not
OuterExceptCloseAlways(exc) ==
  IF exc = "SerialException" THEN
       /\ output' = Append(output, MsgOpenError)
       /\ pc' = "done"
       /\ UNCHANGED <<ser, closes>>
  ELSE IF exc = "KeyboardInterrupt" THEN
       /\ output' = Append(output, MsgStopped)
       /\ IF ser # "unbound"
            THEN ser' = "closed" /\ closes' = closes + 1
            ELSE UNCHANGED <<ser, closes>>
       /\ pc' = "done"
  ELSE IF exc \in ExceptionKinds THEN
       /\ output' = Append(output, MsgUnexpected)
       /\ pc' = "done"
       /\ UNCHANGED <<ser, closes>>
  ELSE /\ pc' = "crashed"
       /\ UNCHANGED <<ser, closes, output>>

\* lines 40-47: the except clauses of the outer try, tried in order
OuterExcept(exc) ==
  IF exc = "SerialException" THEN
       /\ output' = Append(output, MsgOpenError)
       /\ pc' = "done"
       /\ UNCHANGED <<ser, closes>>
  ELSE IF exc = "KeyboardInterrupt" THEN
       /\ output' = Append(output, MsgStopped)
       /\ IF ser # "unbound" /\ ser = "open"
            THEN ser' = "closed" /\ closes' = closes + 1
            ELSE UNCHANGED <<ser, closes>>
       /\ pc' = "done"
  ELSE IF exc \in ExceptionKinds THEN
       /\ output' = Append(output, MsgUnexpected)
       /\ pc' = "done"
       /\ UNCHANGED <<ser, closes>>
  ELSE /\ pc' = "crashed"
       /\ UNCHANGED <<ser, closes, output>>

\* a bare 'except:' on line 32
InnerCatchesAll(exc) == TRUE

\* 'except UnicodeDecodeError' on line 32
InnerCatchesDecodeOnly(exc) == exc = "UnicodeDecodeError"

\* line 32: except Exception
InnerCatches(exc) == exc \in ExceptionKinds

\* lines 32-33: the except clause of the per-line try; what it does not
\* catch goes to the outer try
InnerExcept(exc) ==
  IF InnerCatches(exc) THEN
       /\ output' = Append(output, MsgLineError)
       /\ pc' = "L24"
       /\ UNCHANGED <<ser, closes>>
  ELSE OuterExcept(exc)

----------------------------------------------------------------------------
Init ==
  /\ pc = "L12"
  /\ ser = "unbound"
  /\ output = <<>>
  /\ now = StartClock
  /\ start_time = 0
  /\ line = <<>>
  /\ raw = <<>>
  /\ reads = 0
  /\ idle = 0
  /\ closes = 0
  /\ raised = <<>>

\* line 12: serial.Serial(PORT, BAUDRATE, timeout=1) succeeds
OpenOk ==
  /\ pc = "L12"
  /\ ser' = "open"
  /\ pc' = "L14"
  /\ UNCHANGED <<output, now, start_time, line, raw, reads, idle, closes, raised>>

\* the banner of lines 14-17 printed before the port is opened
OpenFailsAfterBanner ==
  /\ pc = "L12"
  /\ Raise("SerialException")
  /\ output' = <<MsgBanner, MsgOpenError>>
  /\ pc' = "done"
  /\ UNCHANGED <<ser, closes, now, start_time, line, raw, reads, idle>>

\* line 12: the port cannot be opened
OpenFails ==
  /\ pc = "L12"
  /\ Raise("SerialException")
  /\ OuterExcept("SerialException")
  /\ UNCHANGED <<now, start_time, line, raw, reads, idle>>

\* lines 14-17
Banner ==
  /\ pc = "L14"
  /\ output' = Append(output, MsgBanner)
  /\ pc' = "L20"
  /\ UNCHANGED <<ser, now, start_time, line, raw, reads, idle, closes, raised>>

\* line 20: ser.reset_input_buffer()
ResetOk ==
  /\ pc = "L20"
  /\ pc' = "L23"
  /\ UNCHANGED <<ser, output, now, start_time, line, raw, reads, idle, closes, raised>>

\* line 20: the call raises
ResetFails ==
  /\ pc = "L20"
  /\ \E exc \in CallErrors : Raise(exc) /\ OuterExcept(exc)
  /\ UNCHANGED <<now, start_time, line, raw, reads, idle>>

\* line 23: start_time = time.time()
StartTimer ==
  /\ pc = "L23"
  /\ start_time' = now
  /\ pc' = "L24"
  /\ UNCHANGED <<ser, output, now, line, raw, reads, idle, closes, raised>>

\* the subtraction of line 24 written the wrong way round
WhileCheckReversed ==
  /\ pc = "L24"
  /\ pc' = IF start_time - now < DURATION THEN "L25" ELSE "L37"
  /\ UNCHANGED <<ser, output, now, start_time, line, raw, reads, idle, closes, raised>>

\* line 24: while time.time() - start_time < 20
WhileCheck ==
  /\ pc = "L24"
  /\ pc' = IF now - start_time < DURATION THEN "L25" ELSE "L37"
  /\ UNCHANGED <<ser, output, now, start_time, line, raw, reads, idle, closes, raised>>

\* line 25: ser.in_waiting > 0
InWaitingSome ==
  /\ pc = "L25"
  /\ reads < MaxReads
  /\ pc' = "L27"
  /\ UNCHANGED <<ser, output, now, start_time, line, raw, reads, idle, closes, raised>>

\* line 25: ser.in_waiting is 0
InWaitingNone ==
  /\ pc = "L25"
  /\ pc' = "L35"
  /\ UNCHANGED <<ser, output, now, start_time, line, raw, reads, idle, closes, raised>>

\* line 25: the query raises
InWaitingFails ==
  /\ pc = "L25"
  /\ \E exc \in CallErrors : Raise(exc) /\ OuterExcept(exc)
  /\ UNCHANGED <<now, start_time, line, raw, reads, idle>>

\* lines 26-33: readline() returns bs; decode, rstrip, print if non-empty
ReadLine ==
  /\ pc = "L27"
  /\ \E bs \in LineSet :
       /\ raw' = bs
       /\ IF DecodeRaises(bs) THEN
               /\ Raise("UnicodeDecodeError")
               /\ InnerExcept("UnicodeDecodeError")
               /\ UNCHANGED line
          ELSE /\ line' = RStrip(Decode(bs))
               /\ output' = IF line' # <<>> THEN Append(output, MsgRecord(line'))
                                            ELSE output
               /\ pc' = "L24"
               /\ UNCHANGED <<ser, closes, raised>>
  /\ reads' = reads + 1
  /\ UNCHANGED <<now, start_time, idle>>

\* lines 26-33: readline() raises
ReadLineFails ==
  /\ pc = "L27"
  /\ \E exc \in CallErrors : Raise(exc) /\ InnerExcept(exc)
  /\ reads' = reads + 1
  /\ UNCHANGED <<now, start_time, line, raw, idle>>

\* line 35: time.sleep(0.01)
Sleep ==
  /\ pc = "L35"
  /\ now < ClockCap
  /\ now' = now + SLEEP
  /\ idle' = idle + 1
  /\ pc' = "L24"
  /\ UNCHANGED <<ser, output, start_time, line, raw, reads, closes, raised>>

\* line 37: ser.close()
ClosePort ==
  /\ pc = "L37"
  /\ ser' = "closed"
  /\ closes' = closes + 1
  /\ pc' = "L38"
  /\ UNCHANGED <<output, now, start_time, line, raw, reads, idle, raised>>

\* line 38
PrintComplete ==
  /\ pc = "L38"
  /\ output' = Append(output, MsgComplete)
  /\ pc' = "done"
  /\ UNCHANGED <<ser, now, start_time, line, raw, reads, idle, closes, raised>>

\* Ctrl+C while a statement of the try body is running: KeyboardInterrupt is
\* raised there; inside the per-line try it first meets the inner except
Interrupt ==
  /\ pc \in TryBody
  /\ Raise("KeyboardInterrupt")
  /\ IF pc = "L27" THEN InnerExcept("KeyboardInterrupt")
                   ELSE OuterExcept("KeyboardInterrupt")
  /\ UNCHANGED <<now, start_time, line, raw, reads, idle>>

\* line 24, time.time(): wall-clock time passes while the loop is blocked in
\* a call or descheduled
Elapse ==
  /\ pc \in LoopBody
  /\ now - start_time < DURATION
  /\ now + ElapseStep <= ClockCap
  /\ now' = now + ElapseStep
  /\ UNCHANGED <<pc, ser, output, start_time, line, raw, reads, idle, closes, raised>>

Next ==
  \/ OpenOk
  \/ OpenFails
  \/ Banner
  \/ ResetOk
  \/ ResetFails
  \/ StartTimer
  \/ WhileCheck
  \/ InWaitingSome
  \/ InWaitingNone
  \/ InWaitingFails
  \/ ReadLine
  \/ ReadLineFails
  \/ (idle < MaxIdle /\ Sleep)
  \/ ClosePort
  \/ PrintComplete
  \/ Interrupt
  \/ Elapse

Spec == Init /\ [][Next]_vars

\* The silent device: the port opens, nothing is ever waiting, nobody
\* interrupts, and time passes only in the idle sleep.
NextQuiet ==
  \/ OpenOk
  \/ Banner
  \/ ResetOk
  \/ StartTimer
  \/ WhileCheck
  \/ InWaitingNone
  \/ Sleep
  \/ ClosePort
  \/ PrintComplete

SpecQuiet == Init /\ [][NextQuiet]_vars /\ WF_vars(NextQuiet)

----------------------------------------------------------------------------
(* Properties.                                                             *)

Terminated == pc \in {"done", "crashed"}

Count(k) == Cardinality({i \in DOMAIN output : output[i].kind = k})

IsRecord(m) == m.kind = "record"
RecordsOf(out) == SelectSeq(out, IsRecord)

IsFailureMsg(m) == m \in {MsgOpenError, MsgLineError, MsgStopped, MsgUnexpected}
FailureMsgs(out) == SelectSeq(out, IsFailureMsg)

\* an exception was raised in this step
Raised == Len(raised') = Len(raised) + 1
Latest == raised'[Len(raised')]

\* readline() returned bytes in this step (it did not itself raise)
ReadReturned ==
  /\ reads' = reads + 1
  /\ Raised => Latest.exc \notin CallErrors

\* the text left of the last character that is not whitespace
Trimmed(d) ==
  LET keep == {i \in 1..Len(d) : ~IsSpace(d[i])}
  IN  IF keep = {} THEN <<>>
      ELSE SubSeq(d, 1, CHOOSE i \in keep : \A j \in keep : j <= i)

HasInvalid(bs) == \E i \in 1..Len(bs) : bs[i] >= 128

\* C1: whenever the program has terminated after the port was opened, the
\* connection is closed.
ClosedOnEveryExit ==
  (Terminated /\ ser # "unbound") => ser = "closed"

\* C2: an interrupt raised at a statement of the loop ends the run in that
\* step: no read is made, the connection is closed, one "stopped by user"
\* message and no completion message are printed, the program is done and
\* not crashed; and nothing runs after the program is done.
InterruptEndsLoop ==
  [][/\ ~Terminated
     /\ (Raised /\ Latest.exc = "KeyboardInterrupt" /\ Latest.at \in LoopBody)
          => /\ pc' = "done"
             /\ ser' = "closed"
             /\ reads' = reads
             /\ output' = Append(output, MsgStopped)
             /\ Count("Monitoring stopped by user")' = 1
             /\ Count("Monitoring complete")' = 0]_vars

InterruptEndsLoopWitness ==
  /\ pc = "done"
  /\ raised # <<>>
  /\ raised[Len(raised)] = [exc |-> "KeyboardInterrupt", at |-> "L27"]
  /\ reads = 1
  /\ RecordsOf(output) # <<>>

\* C3: when the open on line 12 raised SerialException, the program is done
\* having printed the open-error message and nothing else: no banner, no
\* record, no read, no connection.
OpenFailureSkipsLoop ==
  (raised # <<>> /\ raised[1] = [exc |-> "SerialException", at |-> "L12"])
    => /\ pc = "done"
       /\ output = <<MsgOpenError>>
       /\ ser = "unbound"
       /\ reads = 0

OpenFailureSkipsLoopWitness ==
  /\ pc = "done"
  /\ raised = <<[exc |-> "SerialException", at |-> "L12"]>>
  /\ output = <<MsgOpenError>>

\* C4: a failure of the read or decode of one line is caught in the loop:
\* the step prints exactly the "Error reading line" message, leaves the
\* connection open and returns to the deadline check of line 24.
LineFailureContained ==
  [][(Raised /\ Latest.at = "L27" /\ Latest.exc # "KeyboardInterrupt")
       => /\ pc' = "L24"
          /\ ser' = "open"
          /\ output' = Append(output, MsgLineError)]_vars

\* a record printed after a per-line error message
LineFailureContainedWitness ==
  \E i \in DOMAIN output : \E j \in DOMAIN output :
    /\ i < j
    /\ output[i] = MsgLineError
    /\ output[j].kind = "record"
    /\ ser = "open"

\* C5: a step in which readline() returned a line prints one record carrying
\* the trimmed text when that text is non-empty and prints nothing when it
\* is empty; no other step changes the records printed.
RecordIffNonEmpty ==
  [][IF ReadReturned
       THEN LET t == Trimmed(Decode(raw'))
            IN  /\ t # <<>> => output' = Append(output, MsgRecord(t))
                /\ t = <<>> => output' = output
       ELSE RecordsOf(output') = RecordsOf(output)]_vars

\* two lines read, "h\n" printed as "h" and "\r\n" printed as nothing
RecordIffNonEmptyWitness ==
  /\ reads = 2
  /\ raised = <<>>
  /\ raw = <<CR, LF>>
  /\ line = <<>>
  /\ RecordsOf(output) = <<MsgRecord(<<104>>)>>

\* a failure raised inside the per-line block and caught there
LineFailure(f) == f.at = "L27" /\ f.exc # "KeyboardInterrupt"
ReportsOf(f) ==
  IF LineFailure(f) THEN {MsgLineError}
  ELSE IF f.exc = "KeyboardInterrupt" THEN {MsgStopped}
  ELSE {MsgOpenError, MsgUnexpected}

\* C6: no failure crashes the program; the failure messages printed are, in
\* order, one per failure raised (a per-line failure its "Error reading
\* line", an interrupt its "stopped by user", any other failure one of the
\* two top-level error messages); and after a failure outside the per-line
\* block the program is done.
EveryFailureHandled ==
  /\ pc # "crashed"
  /\ Len(FailureMsgs(output)) = Len(raised)
  /\ \A i \in DOMAIN raised : FailureMsgs(output)[i] \in ReportsOf(raised[i])
  /\ (\E i \in DOMAIN raised : ~LineFailure(raised[i])) => pc = "done"

EveryFailureHandledWitness ==
  /\ pc = "done"
  /\ Len(raised) = 2
  /\ LineFailure(raised[1])
  /\ raised[2] = [exc |-> "OSError", at |-> "L25"]
  /\ FailureMsgs(output) = <<MsgLineError, MsgUnexpected>>

\* C7: with a silent device the program eventually is done; the loop is left
\* no later than DURATION + TIMEOUT after start_time with no record
\* printed, and the run prints the banner and the completion message only.
QuietRunCompletes ==
  /\ <>(pc = "done")
  /\ [](pc \in {"L37", "L38", "done"}
          => /\ now - start_time <= DURATION + TIMEOUT
             /\ RecordsOf(output) = <<>>)
  /\ [](pc = "done" => output = <<MsgBanner, MsgComplete>>)

QuietRunCompletesWitness ==
  /\ pc = "done"
  /\ output = <<MsgBanner, MsgComplete>>
  /\ now - start_time >= DURATION
  /\ idle > 0
  /\ ser = "closed"

\* C8: a step in which readline() returned a line with an invalid byte
\* raises nothing, prints one record whose text is the line with every
\* invalid byte replaced by U+FFFD (trailing whitespace dropped), and goes
\* back to the deadline check with the connection open.
InvalidBytesReplaced ==
  [][(ReadReturned /\ HasInvalid(raw'))
       => /\ ~Raised
          /\ pc' = "L24"
          /\ ser' = "open"
          /\ \E n \in 1..Len(raw') :
               /\ \A i \in 1..Len(raw') : raw'[i] >= 128 => i <= n
               /\ output' = Append(output, MsgRecord(
                    [i \in 1..n |-> IF raw'[i] >= 128 THEN REPLACEMENT
                                                     ELSE raw'[i]]))]_vars

\* "\xff\n" printed as one record holding the placeholder
InvalidBytesReplacedWitness ==
  /\ raw = <<255, LF>>
  /\ output # <<>>
  /\ output[Len(output)] = MsgRecord(<<REPLACEMENT>>)
  /\ pc = "L24"
  /\ raised = <<>>

\* C9: close is called at most once, the handle is closed exactly when it
\* has been called, and the handle is open at every statement from the
\* banner to the close of line 37, the availability check and the line read
\* included.
SingleClose ==
  /\ closes <= 1
  /\ (ser = "closed") <=> (closes = 1)
  /\ pc \in {"L14", "L20", "L23", "L24", "L25", "L27", "L35", "L37"}
       => ser = "open"

\* an interrupt arriving after the close of line 37
SingleCloseWitness ==
  /\ pc = "done"
  /\ raised = <<[exc |-> "KeyboardInterrupt", at |-> "L38"]>>
  /\ closes = 1
  /\ ser = "closed"

\* C10: the "Error opening serial port" message is printed only when the
\* port was never opened: no connection, no banner, no read.
OpenErrorOnlyWhenOpenFailed ==
  (\E i \in DOMAIN output : output[i] = MsgOpenError)
    => /\ ser = "unbound"
       /\ \A i \in DOMAIN output : output[i] # MsgBanner
       /\ reads = 0

====
